---- MODULE Spec2Model ----
(***************************************************************************)
(* Model of the InMoov UART servo controller: UART_InMoov.ino (line        *)
(* receiver, command parser, dispatcher, angle mapping) and AdaHat.cpp     *)
(* (channel registry, PWM writes, idle watchdog).                          *)
(*                                                                         *)
(* Target: Arduino AVR (avr-gcc): int is 16 bits, long is 32 bits, no      *)
(* memory protection.  Characters are one-character strings, C strings    *)
(* are read from a buffer up to the first NUL.                             *)
(*                                                                         *)
(* Spec: a host sends whole command lines and time passes.  FeedSpec: a    *)
(* host feeds byte streams in fragments.  MapSpec: the percentage mapping  *)
(* applied to every percentage for a range of bounds.                      *)
(***************************************************************************)
EXTENDS Integers, Sequences, FiniteSets, TLC

VARIABLES
    rx,             \* bytes waiting in the Serial receive buffer
    commands,       \* char commands[numChars]
    ndx,            \* static byte ndx of recvWithEndMarker
    newData,        \* boolean newData
    _servoMins,     \* AdaHat::_servoMins[32]
    _servoMaxs,     \* AdaHat::_servoMaxs[32]
    _servoPoss,     \* AdaHat::_servoPoss[32]
    _lastUpdated,   \* AdaHat::_lastUpdated[32]
    now,            \* millis()
    pc,             \* position in loop(): "recv", "process", "idle"
    effects,        \* setPWM calls and Serial responses of the latest loop
                    \* step, in the order the step made them
    sent,           \* number of lines the host has sent so far
    stream,         \* the byte stream a host feeds in fragments (FeedSpec)
    fed,            \* number of bytes of stream written to the link so far
    mapIn,          \* arguments of the percentage mapping (MapSpec)
    mapOut          \* its results for the percentages applied so far

vars == <<rx, commands, ndx, newData, _servoMins, _servoMaxs, _servoPoss,
          _lastUpdated, now, pc, effects, sent, stream, fed, mapIn, mapOut>>

\* The variables of the host that feeds fragments and of the mapping harness.
aux == <<stream, fed, mapIn, mapOut>>

----------------------------------------------------------------------------
(* Bounds of the model *)

MaxLines == 2          \* lines the host sends in one behaviour
MaxTime == 5001        \* the clock stops advancing here
MaxPercent == 100      \* the mapping harness applies percentages 0..MaxPercent

----------------------------------------------------------------------------
(* Program constants *)

numChars == 32
NumServos == 32
IntBits == 16
IntBytes == IntBits \div 8
ByteBits == 8
IdleThreshold == 5000
PwmOff == 4096
SweepPins == 16
BoardPins == 16
UnsetAngle == -1
UncalibratedPulse == 375
SafeDefaultDegrees == 90
pinAmount == 10

SERVO_HEAD_TWIST_MIN == 180
SERVO_HEAD_TWIST_MAX == 580
SERVO_HEAD_VERT_MIN == 140
SERVO_HEAD_VERT_MAX == 550
SERVO_HEAD_MOUTH_MIN == 135
SERVO_HEAD_MOUTH_MAX == 550
SERVO_RIGHT_BICEP_TWIST_MIN == 180
SERVO_RIGHT_BICEP_TWIST_MAX == 580
SERVO_UNCALIBRATED_DEFAULT_MIN == 150
SERVO_UNCALIBRATED_DEFAULT_MAX == 600

PIN_HEAD_TWIST == 0
PIN_HEAD_MOUTH == 1
PIN_HEAD_VERT == 8
PIN_RIGHT_BICEP_TWIST == 2
PIN_RIGHT_THUMB == 3
PIN_RIGHT_INDEX == 4
PIN_RIGHT_MIDDLE == 5
PIN_RIGHT_RING == 6
PIN_RIGHT_PINKY == 7
PIN_RIGHT_WRIST == 9
PIN_INVERT == PIN_RIGHT_MIDDLE
PIN_LEFT_THUMB == 15
PIN_LEFT_INDEX == 16
PIN_LEFT_MIDDLE == 17
PIN_LEFT_RING == 18
PIN_LEFT_PINKY == 19
PIN_LEFT_WRIST == 20

HEAD_TWIST_MIN == 40
HEAD_TWIST_MAX == 100
HEAD_VERT_MIN == 20
HEAD_VERT_MAX == 90
HEAD_MOUTH_MIN == 45
HEAD_MOUTH_MAX == 90
RIGHT_BICEP_TWIST_MIN == 45
RIGHT_BICEP_TWIST_MAX == 120
RIGHT_THUMB_MIN == 10
RIGHT_THUMB_MAX == 100
RIGHT_INDEX_MIN == 0
RIGHT_INDEX_MAX == 80
RIGHT_MIDDLE_MIN == 40
RIGHT_MIDDLE_MAX == 140
RIGHT_RING_MIN == 20
RIGHT_RING_MAX == 165
RIGHT_PINKY_MIN == 45
RIGHT_PINKY_MAX == 165
RIGHT_WRIST_MIN == 40
RIGHT_WRIST_MAX == 120
LEFT_THUMB_MIN == 10
LEFT_THUMB_MAX == 100
LEFT_INDEX_MIN == 0
LEFT_INDEX_MAX == 80
LEFT_MIDDLE_MIN == 40
LEFT_MIDDLE_MAX == 140
LEFT_RING_MIN == 20
LEFT_RING_MAX == 165
LEFT_PINKY_MIN == 45
LEFT_PINKY_MAX == 165
LEFT_WRIST_MIN == 40
LEFT_WRIST_MAX == 120

----------------------------------------------------------------------------
(* Characters and C strings *)

NUL == "NUL"
endMarker == "LF"
Digits == {"0", "1", "2", "3", "4", "5", "6", "7", "8", "9"}
ValueChars == {"+", "-"} \cup Digits

DigitVal(c) ==
    CASE c = "0" -> 0 [] c = "1" -> 1 [] c = "2" -> 2 [] c = "3" -> 3
      [] c = "4" -> 4 [] c = "5" -> 5 [] c = "6" -> 6 [] c = "7" -> 7
      [] c = "8" -> 8 [] c = "9" -> 9

\* Index of the first NUL of buf at or after position i (the C string's end).
RECURSIVE StrEnd(_, _)
StrEnd(buf, i) == IF buf[i] = NUL THEN i ELSE StrEnd(buf, i + 1)

\* The C string that starts at buf[i], as a sequence of characters.
CStr(buf, i) == [k \in 1..(StrEnd(buf, i) - i) |-> buf[i + k - 1]]

----------------------------------------------------------------------------
(* Integer arithmetic of the target *)

\* Conversion of a value to the 16-bit int of the target (two's complement).
ToInt(v) ==
    LET m == 2 ^ IntBits
        r == v % m
    IN  IF r >= m \div 2 THEN r - m ELSE r

\* The unsigned 16-bit word that holds v.
ToWord(v) == v % (2 ^ IntBits)

\* C integer division truncates toward zero.
CDiv(a, b) ==
    LET q == (IF a < 0 THEN -a ELSE a) \div (IF b < 0 THEN -b ELSE b)
    IN  IF (a < 0) # (b < 0) THEN -q ELSE q

\* Variant of map(): the input is measured from in_max, so the output falls
\* as the input rises.
mapDescending(x, in_min, in_max, out_min, out_max) ==
    CDiv((in_max - x) * (out_max - out_min), in_max - in_min) + out_min

\* Arduino map(): long arithmetic, truncating division.
map(x, in_min, in_max, out_min, out_max) ==
    CDiv((x - in_min) * (out_max - out_min), in_max - in_min) + out_min

\* The unsigned byte that holds v (uint8_t parameters).
ToByte(v) == v % (2 ^ ByteBits)

\* Sequencing of two statements: x is computed first, F continues with its
\* value (this keeps the evaluation of long loops shallow).
Then(x, F(_)) == CHOOSE r \in {F(v) : v \in {x}} : TRUE

----------------------------------------------------------------------------
(* The AdaHat object.  A value h of the registry is a record               *)
(*   [mins, maxs, poss, upd : arrays 0..31,                                *)
(*    log : the setPWM calls and Serial responses so far, in order].       *)
(* The four arrays are adjacent members (AdaHat.h:17-26), so an index      *)
(* outside 0..31 reaches a neighbouring array.  Addresses count 16-bit     *)
(* words from _servoMins[0]; an unsigned long takes two words, low first.  *)
(* A load outside the four arrays yields a word the model does not know    *)
(* (junk); a store outside them changes memory the model does not hold.    *)
(***************************************************************************)

MinsBase == 0
MaxsBase == MinsBase + NumServos
PossBase == MaxsBase + NumServos
UpdBase == PossBase + NumServos
UpdEnd == UpdBase + 2 * NumServos

LoadInt(h, a, junk) ==
    CASE a >= MinsBase /\ a < MaxsBase -> h.mins[a - MinsBase]
      [] a >= MaxsBase /\ a < PossBase -> h.maxs[a - MaxsBase]
      [] a >= PossBase /\ a < UpdBase -> h.poss[a - PossBase]
      [] a >= UpdBase /\ a < UpdEnd ->
            LET k == (a - UpdBase) \div 2
            IN  ToInt(IF (a - UpdBase) % 2 = 0
                      THEN h.upd[k] % (2 ^ IntBits)
                      ELSE h.upd[k] \div (2 ^ IntBits))
      [] OTHER -> junk

StoreWord(h, a, v) ==
    CASE a >= MinsBase /\ a < MaxsBase ->
            [h EXCEPT !.mins[a - MinsBase] = ToInt(v)]
      [] a >= MaxsBase /\ a < PossBase ->
            [h EXCEPT !.maxs[a - MaxsBase] = ToInt(v)]
      [] a >= PossBase /\ a < UpdBase ->
            [h EXCEPT !.poss[a - PossBase] = ToInt(v)]
      [] a >= UpdBase /\ a < UpdEnd ->
            LET k == (a - UpdBase) \div 2
            IN  IF (a - UpdBase) % 2 = 0
                THEN [h EXCEPT !.upd[k] =
                         (@ \div (2 ^ IntBits)) * (2 ^ IntBits) + ToWord(v)]
                ELSE [h EXCEPT !.upd[k] =
                         ToWord(v) * (2 ^ IntBits) + (@ % (2 ^ IntBits))]
      [] OTHER -> h

\* An unsigned long store: two words, low word first.
StoreLong(h, a, v) ==
    StoreWord(StoreWord(h, a, v % (2 ^ IntBits)), a + 1, v \div (2 ^ IntBits))

\* One call of Adafruit_PWMServoDriver::setPWM(num, 0, off) on board dev.
PwmWrite(dev, num, off) ==
    [tag |-> "PWM", dev |-> dev, num |-> ToByte(num), off |-> ToWord(off),
     servo |-> <<>>, relative |-> FALSE, value |-> 0, text |-> <<>>]

\* AdaHat::setServoDegrees(position, degrees) at time t.
setServoDegrees(h, position, degrees, t, junk) ==
    LET currentMin == LoadInt(h, MinsBase + position, junk.word)
        currentMax == LoadInt(h, MaxsBase + position, junk.word)
        h1 == StoreWord(h, PossBase + position, degrees)
        h2 == StoreLong(h1, UpdBase + 2 * position, t)
        pulseLength == ToInt(map(degrees, 0, 180, currentMin, currentMax))
        w0 == IF position < BoardPins
              THEN <<PwmWrite(0, position, pulseLength)>> ELSE <<>>
        w1 == IF position >= BoardPins
              THEN <<PwmWrite(1, position - BoardPins, pulseLength)>> ELSE <<>>
    IN  [h2 EXCEPT !.log = @ \o w0 \o w1]

\* AdaHat::getServoDegrees(position).
getServoDegrees(h, position, junk) == LoadInt(h, PossBase + position, junk.word)

\* Variant of the sweep's loop body: disabling a channel also restarts its
\* idle timer.
SweepPinRestartsTimer(h, pin, t) ==
    IF t > (h.upd[pin] + IdleThreshold)
    THEN [h EXCEPT !.log = @ \o <<PwmWrite(0, pin, PwmOff)>>, !.upd[pin] = t]
    ELSE h

\* One iteration of the loop of AdaHat::turnOffIdleServos.
SweepPin(h, pin, t) ==
    IF t > (h.upd[pin] + IdleThreshold)
    THEN LET w0 == IF pin < BoardPins
                   THEN <<PwmWrite(0, pin, PwmOff)>> ELSE <<>>
             w1 == IF pin >= BoardPins
                   THEN <<PwmWrite(1, pin - BoardPins, PwmOff)>> ELSE <<>>
         IN  [h EXCEPT !.log = @ \o w0 \o w1]
    ELSE h

RECURSIVE SweepLoop(_, _, _)
SweepLoop(h, pin, t) ==
    IF pin < SweepPins
    THEN Then(SweepPin(h, pin, t), LAMBDA h1 : SweepLoop(h1, pin + 1, t))
    ELSE h

\* AdaHat::turnOffIdleServos() at time t.
hatTurnOffIdleServos(h, t) == SweepLoop(h, 0, t)

----------------------------------------------------------------------------
(* Calibration tables and the angle mapping (UART_InMoov.ino) *)

getServoMin(servoPin) ==
    CASE servoPin = PIN_HEAD_TWIST -> HEAD_TWIST_MIN
      [] servoPin = PIN_HEAD_MOUTH -> HEAD_MOUTH_MIN
      [] servoPin = PIN_HEAD_VERT -> HEAD_VERT_MIN
      [] servoPin = PIN_RIGHT_BICEP_TWIST -> RIGHT_BICEP_TWIST_MIN
      [] servoPin = PIN_RIGHT_THUMB -> RIGHT_THUMB_MIN
      [] servoPin = PIN_RIGHT_INDEX -> RIGHT_INDEX_MIN
      [] servoPin = PIN_RIGHT_MIDDLE -> RIGHT_MIDDLE_MIN
      [] servoPin = PIN_RIGHT_RING -> RIGHT_RING_MIN
      [] servoPin = PIN_RIGHT_PINKY -> RIGHT_PINKY_MIN
      [] servoPin = PIN_RIGHT_WRIST -> RIGHT_WRIST_MIN
      [] servoPin = PIN_LEFT_THUMB -> LEFT_THUMB_MIN
      [] servoPin = PIN_LEFT_INDEX -> LEFT_INDEX_MIN
      [] servoPin = PIN_LEFT_MIDDLE -> LEFT_MIDDLE_MIN
      [] servoPin = PIN_LEFT_RING -> LEFT_RING_MIN
      [] servoPin = PIN_LEFT_PINKY -> LEFT_PINKY_MIN
      [] servoPin = PIN_LEFT_WRIST -> LEFT_WRIST_MIN
      [] OTHER -> SafeDefaultDegrees

getServoMax(servoPin) ==
    CASE servoPin = PIN_HEAD_TWIST -> HEAD_TWIST_MAX
      [] servoPin = PIN_HEAD_MOUTH -> HEAD_MOUTH_MAX
      [] servoPin = PIN_HEAD_VERT -> HEAD_VERT_MAX
      [] servoPin = PIN_RIGHT_BICEP_TWIST -> RIGHT_BICEP_TWIST_MAX
      [] servoPin = PIN_RIGHT_THUMB -> RIGHT_THUMB_MAX
      [] servoPin = PIN_RIGHT_INDEX -> RIGHT_INDEX_MAX
      [] servoPin = PIN_RIGHT_MIDDLE -> RIGHT_MIDDLE_MAX
      [] servoPin = PIN_RIGHT_RING -> RIGHT_RING_MAX
      [] servoPin = PIN_RIGHT_PINKY -> RIGHT_PINKY_MAX
      [] servoPin = PIN_RIGHT_WRIST -> RIGHT_WRIST_MAX
      [] servoPin = PIN_LEFT_THUMB -> LEFT_THUMB_MAX
      [] servoPin = PIN_LEFT_INDEX -> LEFT_INDEX_MAX
      [] servoPin = PIN_LEFT_MIDDLE -> LEFT_MIDDLE_MAX
      [] servoPin = PIN_LEFT_RING -> LEFT_RING_MAX
      [] servoPin = PIN_LEFT_PINKY -> LEFT_PINKY_MAX
      [] servoPin = PIN_LEFT_WRIST -> LEFT_WRIST_MAX
      [] OTHER -> SafeDefaultDegrees

\* Variant of getControlPin: an unknown code falls back to channel 0 instead
\* of the error value.
getControlPinDefaultsToHead(servo) ==
    CASE servo = <<"H", "H">> -> PIN_HEAD_TWIST
      [] servo = <<"H", "V">> -> PIN_HEAD_VERT
      [] servo = <<"H", "M">> -> PIN_HEAD_MOUTH
      [] servo = <<"R", "B">> -> PIN_RIGHT_BICEP_TWIST
      [] servo = <<"R", "T">> -> PIN_RIGHT_THUMB
      [] servo = <<"R", "I">> -> PIN_RIGHT_INDEX
      [] servo = <<"R", "M">> -> PIN_RIGHT_MIDDLE
      [] servo = <<"R", "R">> -> PIN_RIGHT_RING
      [] servo = <<"R", "P">> -> PIN_RIGHT_PINKY
      [] servo = <<"R", "W">> -> PIN_RIGHT_WRIST
      [] servo = <<"L", "T">> -> PIN_LEFT_THUMB
      [] servo = <<"L", "I">> -> PIN_LEFT_INDEX
      [] servo = <<"L", "M">> -> PIN_LEFT_MIDDLE
      [] servo = <<"L", "R">> -> PIN_LEFT_RING
      [] servo = <<"L", "P">> -> PIN_LEFT_PINKY
      [] servo = <<"L", "W">> -> PIN_LEFT_WRIST
      [] OTHER -> PIN_HEAD_TWIST

\* The code-to-channel table; -1 when the code is not in it.
getControlPin(servo) ==
    CASE servo = <<"H", "H">> -> PIN_HEAD_TWIST
      [] servo = <<"H", "V">> -> PIN_HEAD_VERT
      [] servo = <<"H", "M">> -> PIN_HEAD_MOUTH
      [] servo = <<"R", "B">> -> PIN_RIGHT_BICEP_TWIST
      [] servo = <<"R", "T">> -> PIN_RIGHT_THUMB
      [] servo = <<"R", "I">> -> PIN_RIGHT_INDEX
      [] servo = <<"R", "M">> -> PIN_RIGHT_MIDDLE
      [] servo = <<"R", "R">> -> PIN_RIGHT_RING
      [] servo = <<"R", "P">> -> PIN_RIGHT_PINKY
      [] servo = <<"R", "W">> -> PIN_RIGHT_WRIST
      [] servo = <<"L", "T">> -> PIN_LEFT_THUMB
      [] servo = <<"L", "I">> -> PIN_LEFT_INDEX
      [] servo = <<"L", "M">> -> PIN_LEFT_MIDDLE
      [] servo = <<"L", "R">> -> PIN_LEFT_RING
      [] servo = <<"L", "P">> -> PIN_LEFT_PINKY
      [] servo = <<"L", "W">> -> PIN_LEFT_WRIST
      [] OTHER -> -1

\* Variant of getCalculatedDegreesFromPercentage: the clamped percentage is
\* returned as the angle, the channel's degree range is not applied.
getDegreesIgnoringRange(commandValue, minimum, maximum) ==
    IF commandValue > 100 THEN 100
    ELSE IF commandValue < 0 THEN 0 ELSE commandValue

getCalculatedDegreesFromPercentage(commandValue, minimum, maximum) ==
    LET v == IF commandValue > 100 THEN 100
             ELSE IF commandValue < 0 THEN 0 ELSE commandValue
    IN  ToInt(map(v, 0, 100, minimum, maximum))

getCalculatedRelativeDegrees(commandValue, minimum, maximum, current) ==
    LET current_percent == ToInt(map(current, minimum, maximum, 0, 100))
        sum == ToInt(current_percent + commandValue)
        new_percent == IF sum > 100 THEN 100 ELSE IF sum < 0 THEN 0 ELSE sum
    IN  ToInt(map(new_percent, 0, 100, minimum, maximum))

----------------------------------------------------------------------------
(* Serial responses *)

\* Serial.print("C:"); Serial.println(commands)
EchoLine(text) ==
    [tag |-> "C", text |-> text, servo |-> <<>>, relative |-> FALSE,
     value |-> 0, dev |-> 0, num |-> 0, off |-> 0]

\* "M:Received command - <servo>[ relative] value <value>%"
Ack(servo, relative, value) ==
    [tag |-> "M", text |-> <<>>, servo |-> servo, relative |-> relative,
     value |-> value, dev |-> 0, num |-> 0, off |-> 0]

\* "E100: Unsupported Servo: <servo>"
E100(servo) ==
    [tag |-> "E100", text |-> <<>>, servo |-> servo, relative |-> FALSE,
     value |-> 0, dev |-> 0, num |-> 0, off |-> 0]

----------------------------------------------------------------------------
(* Values the program reads without having written them.  setDefaultPositions*)
(* reads pins[10..18], stack words beyond the array; a token without sign  *)
(* or digit makes strpbrk return NULL, and value_str[0] and atol(value_str)*)
(* then read from address 0.  Each such read yields some value: junk.pin   *)
(* (a stack word used as a pin), junk.word (a word outside the registry    *)
(* arrays), junk.rel and junk.val (what the read at address 0 makes of     *)
(* relative and value).                                                    *)
(***************************************************************************)

Junks ==
    { [pin |-> PIN_HEAD_TWIST, word |-> 0, val |-> 0, rel |-> FALSE],
      [pin |-> PIN_LEFT_MIDDLE, word |-> UncalibratedPulse, val |-> 77,
       rel |-> FALSE],
      [pin |-> -16, word |-> 0, val |-> 0, rel |-> TRUE],
      [pin |-> 40, word |-> UncalibratedPulse, val |-> -3, rel |-> TRUE] }

----------------------------------------------------------------------------
(* Command dispatcher (UART_InMoov.ino) *)

\* Variant of sendCommand: a relative command is applied to the stored angle
\* as it is, without first establishing the 50% baseline.
sendCommandNoBaseline(h, servo, value, relative, t, junk) ==
    LET control_pin == getControlPin(servo)
        servo_min == getServoMin(control_pin)
        servo_max == getServoMax(control_pin)
        v == IF control_pin = PIN_INVERT THEN ToInt(100 - value) ELSE value
    IN  IF control_pin > -1
        THEN IF ~relative
             THEN setServoDegrees(h, control_pin,
                      getCalculatedDegreesFromPercentage(v, servo_min, servo_max),
                      t, junk)
             ELSE setServoDegrees(h, control_pin,
                      getCalculatedRelativeDegrees(v, servo_min, servo_max,
                          getServoDegrees(h, control_pin, junk)),
                      t, junk)
        ELSE [h EXCEPT !.log = Append(@, E100(servo))]

sendCommand(h, servo, value, relative, t, junk) ==
    LET control_pin == getControlPin(servo)
        servo_min == getServoMin(control_pin)
        servo_max == getServoMax(control_pin)
        v == IF control_pin = PIN_INVERT THEN ToInt(100 - value) ELSE value
    IN  IF control_pin > -1
        THEN IF ~relative
             THEN setServoDegrees(h, control_pin,
                      getCalculatedDegreesFromPercentage(v, servo_min, servo_max),
                      t, junk)
             ELSE LET hb == IF getServoDegrees(h, control_pin, junk) = UnsetAngle
                            THEN setServoDegrees(h, control_pin,
                                     getCalculatedDegreesFromPercentage(
                                         50, servo_min, servo_max),
                                     t, junk)
                            ELSE h
                  IN  setServoDegrees(hb, control_pin,
                          getCalculatedRelativeDegrees(v, servo_min, servo_max,
                              getServoDegrees(hb, control_pin, junk)),
                          t, junk)
        ELSE [h EXCEPT !.log = Append(@, E100(servo))]

\* int pins[pinAmount] of setDefaultPositions.
pins ==
    <<PIN_HEAD_TWIST, PIN_HEAD_VERT, PIN_HEAD_MOUTH, PIN_RIGHT_BICEP_TWIST,
      PIN_RIGHT_THUMB, PIN_RIGHT_INDEX, PIN_RIGHT_MIDDLE, PIN_RIGHT_RING,
      PIN_RIGHT_PINKY, PIN_RIGHT_WRIST>>

\* pins[i]: an element of the array, or the stack word that follows it.
PinsAt(i, junk) == IF i < pinAmount THEN pins[i + 1] ELSE junk.pin

\* sizeof(pins): the array's size in bytes.
SizeofPins == pinAmount * IntBytes

\* The body of the loop of setDefaultPositions for index i.
DefaultStep(h, i, t, junk) ==
    LET pin == PinsAt(i, junk)
        servo_min == getServoMin(pin)
        servo_max == getServoMax(pin)
    IN  setServoDegrees(h, pin,
            getCalculatedDegreesFromPercentage(50, servo_min, servo_max), t, junk)

RECURSIVE DefaultLoop(_, _, _, _)
DefaultLoop(h, i, t, junk) ==
    IF i < SizeofPins - 1
    THEN Then(DefaultStep(h, i, t, junk),
              LAMBDA h1 : DefaultLoop(h1, i + 1, t, junk))
    ELSE h

setDefaultPositions(h, t, junk) == DefaultLoop(h, 0, t, junk)

----------------------------------------------------------------------------
(* Command parser (UART_InMoov.ino, processCommands) *)

RECURSIVE SkipDelims(_, _, _)
SkipDelims(buf, i, delims) ==
    IF buf[i] \in delims THEN SkipDelims(buf, i + 1, delims) ELSE i

RECURSIVE FindDelim(_, _, _)
FindDelim(buf, i, delims) ==
    IF buf[i] = NUL \/ buf[i] \in delims THEN i ELSE FindDelim(buf, i + 1, delims)

\* strtok from position s: tok is where the token starts (-1 for NULL), save
\* where the next call resumes, buf the buffer with the delimiter overwritten.
strtok(buf, s, delims) ==
    LET b == SkipDelims(buf, s, delims)
        e == FindDelim(buf, b, delims)
    IN  IF buf[b] = NUL THEN [tok |-> -1, save |-> b, buf |-> buf]
        ELSE IF buf[e] = NUL THEN [tok |-> b, save |-> e, buf |-> buf]
        ELSE [tok |-> b, save |-> e + 1, buf |-> [buf EXCEPT ![e] = NUL]]

\* strpbrk(command, "+-1234567890"): position of the first such character of
\* the C string at s, -1 for NULL.
RECURSIVE strpbrk(_, _, _)
strpbrk(buf, s, accept) ==
    IF buf[s] = NUL THEN -1
    ELSE IF buf[s] \in accept THEN s
    ELSE strpbrk(buf, s + 1, accept)

RECURSIVE AtolDigits(_, _, _)
AtolDigits(str, i, acc) ==
    IF i <= Len(str) /\ str[i] \in Digits
    THEN AtolDigits(str, i + 1, acc * 10 + DigitVal(str[i]))
    ELSE acc

\* atol: optional sign, then digits up to the first other character.
atol(str) ==
    LET signed == Len(str) > 0 /\ str[1] \in {"+", "-"}
        mag == AtolDigits(str, IF signed THEN 2 ELSE 1, 0)
    IN  IF signed /\ str[1] = "-" THEN -mag ELSE mag

\* Variant of the loop body: the acknowledgement is printed after the token
\* has been dispatched.
ProcessTokenAcksLast(buf, command, h, t, junk) ==
    LET servo == IF buf[command + 1] = NUL
                 THEN <<buf[command]>>
                 ELSE <<buf[command], buf[command + 1]>>
        value_str == strpbrk(buf, command, ValueChars)
        relative == IF value_str = -1 THEN junk.rel
                    ELSE buf[value_str] \in {"+", "-"}
        value == IF value_str = -1 THEN junk.val ELSE atol(CStr(buf, value_str))
        h1 == IF servo = <<"D", "P">>
              THEN setDefaultPositions(h, t, junk)
              ELSE sendCommand(h, servo, ToInt(value), relative, t, junk)
    IN  [h1 EXCEPT !.log = Append(@, Ack(servo, relative, value))]

\* The body of the while loop of processCommands for the token at command.
ProcessToken(buf, command, h, t, junk) ==
    LET servo == IF buf[command + 1] = NUL
                 THEN <<buf[command]>>
                 ELSE <<buf[command], buf[command + 1]>>
        value_str == strpbrk(buf, command, ValueChars)
        relative == IF value_str = -1 THEN junk.rel
                    ELSE buf[value_str] \in {"+", "-"}
        value == IF value_str = -1 THEN junk.val ELSE atol(CStr(buf, value_str))
        h1 == [h EXCEPT !.log = Append(@, Ack(servo, relative, value))]
    IN  IF servo = <<"D", "P">>
        THEN setDefaultPositions(h1, t, junk)
        ELSE sendCommand(h1, servo, ToInt(value), relative, t, junk)

RECURSIVE TokenLoop(_, _, _, _)

\* Variant of the token loop: the loop is left after a token that was
\* answered with E100.
TokenLoopStopsOnError(tk, h, t, junk) ==
    IF tk.tok = -1 THEN [buf |-> tk.buf, h |-> h]
    ELSE Then(ProcessToken(tk.buf, tk.tok, h, t, junk),
              LAMBDA h1 :
                  IF h1.log[Len(h1.log)].tag = "E100"
                  THEN [buf |-> tk.buf, h |-> h1]
                  ELSE TokenLoop(strtok(tk.buf, tk.save, {" "}), h1, t, junk))

TokenLoop(tk, h, t, junk) ==
    IF tk.tok = -1 THEN [buf |-> tk.buf, h |-> h]
    ELSE Then(ProcessToken(tk.buf, tk.tok, h, t, junk),
              LAMBDA h1 : TokenLoop(strtok(tk.buf, tk.save, {" "}), h1, t, junk))

\* processCommands once newData is true: the echo, then the token loop.
RunLine(buf, h, t, junk) ==
    TokenLoop(strtok(buf, 0, {" ", endMarker}),
              [h EXCEPT !.log = Append(@, EchoLine(CStr(buf, 0)))], t, junk)

----------------------------------------------------------------------------
(* Line receiver (UART_InMoov.ino, recvWithEndMarker) *)

\* Variant of the receive loop: on overflow the write position wraps to the
\* start of the buffer.
RECURSIVE RecvLoopWraps(_)
RecvLoopWraps(r) ==
    IF Len(r.rx) > 0 /\ r.newData = FALSE
    THEN LET rc == Head(r.rx)
         IN  IF rc # endMarker
             THEN RecvLoopWraps([r EXCEPT
                      !.rx = Tail(@),
                      !.commands[r.ndx] = rc,
                      !.ndx = IF r.ndx + 1 >= numChars THEN 0 ELSE r.ndx + 1])
             ELSE RecvLoopWraps([r EXCEPT
                      !.rx = Tail(@),
                      !.commands[r.ndx] = NUL,
                      !.ndx = 0,
                      !.newData = TRUE])
    ELSE r

\* Variant of the receive loop: it reads on while bytes are available, also
\* after a line has been completed.
RECURSIVE RecvLoopDrains(_)
RecvLoopDrains(r) ==
    IF Len(r.rx) > 0
    THEN LET rc == Head(r.rx)
         IN  IF rc # endMarker
             THEN RecvLoopDrains([r EXCEPT
                      !.rx = Tail(@),
                      !.commands[r.ndx] = rc,
                      !.ndx = IF r.ndx + 1 >= numChars THEN numChars - 1
                              ELSE r.ndx + 1])
             ELSE RecvLoopDrains([r EXCEPT
                      !.rx = Tail(@),
                      !.commands[r.ndx] = NUL,
                      !.ndx = 0,
                      !.newData = TRUE])
    ELSE r

\* Variant of the receive loop: the write position is pinned one slot late,
\* at numChars.
RECURSIVE RecvLoopPinsAtSize(_)
RecvLoopPinsAtSize(r) ==
    IF Len(r.rx) > 0 /\ r.newData = FALSE
    THEN LET rc == Head(r.rx)
         IN  IF rc # endMarker
             THEN RecvLoopPinsAtSize([r EXCEPT
                      !.rx = Tail(@),
                      !.commands = IF r.ndx < numChars
                                   THEN [@ EXCEPT ![r.ndx] = rc] ELSE @,
                      !.ndx = IF r.ndx + 1 > numChars THEN numChars
                              ELSE r.ndx + 1])
             ELSE RecvLoopPinsAtSize([r EXCEPT
                      !.rx = Tail(@),
                      !.commands = IF r.ndx < numChars
                                   THEN [@ EXCEPT ![r.ndx] = NUL] ELSE @,
                      !.ndx = 0,
                      !.newData = TRUE])
    ELSE r

RECURSIVE RecvLoop(_)
RecvLoop(r) ==
    IF Len(r.rx) > 0 /\ r.newData = FALSE
    THEN LET rc == Head(r.rx)
         IN  IF rc # endMarker
             THEN RecvLoop([r EXCEPT
                      !.rx = Tail(@),
                      !.commands[r.ndx] = rc,
                      !.ndx = IF r.ndx + 1 >= numChars THEN numChars - 1
                              ELSE r.ndx + 1])
             ELSE RecvLoop([r EXCEPT
                      !.rx = Tail(@),
                      !.commands[r.ndx] = NUL,
                      !.ndx = 0,
                      !.newData = TRUE])
    ELSE r

----------------------------------------------------------------------------
(* State machine *)

\* The registry as the operators above take it.
Hat == [mins |-> _servoMins, maxs |-> _servoMaxs, poss |-> _servoPoss,
        upd |-> _lastUpdated, log |-> <<>>]

\* setup(): setupServo for the head and the right arm.
SetupMin(p) ==
    CASE p = PIN_HEAD_TWIST -> SERVO_HEAD_TWIST_MIN
      [] p = PIN_HEAD_VERT -> SERVO_HEAD_VERT_MIN
      [] p = PIN_HEAD_MOUTH -> SERVO_HEAD_MOUTH_MIN
      [] p = PIN_RIGHT_BICEP_TWIST -> SERVO_RIGHT_BICEP_TWIST_MIN
      [] p \in {PIN_RIGHT_THUMB, PIN_RIGHT_INDEX, PIN_RIGHT_MIDDLE,
                PIN_RIGHT_RING, PIN_RIGHT_PINKY, PIN_RIGHT_WRIST} ->
            SERVO_UNCALIBRATED_DEFAULT_MIN
      [] OTHER -> UncalibratedPulse

SetupMax(p) ==
    CASE p = PIN_HEAD_TWIST -> SERVO_HEAD_TWIST_MAX
      [] p = PIN_HEAD_VERT -> SERVO_HEAD_VERT_MAX
      [] p = PIN_HEAD_MOUTH -> SERVO_HEAD_MOUTH_MAX
      [] p = PIN_RIGHT_BICEP_TWIST -> SERVO_RIGHT_BICEP_TWIST_MAX
      [] p \in {PIN_RIGHT_THUMB, PIN_RIGHT_INDEX, PIN_RIGHT_MIDDLE,
                PIN_RIGHT_RING, PIN_RIGHT_PINKY, PIN_RIGHT_WRIST} ->
            SERVO_UNCALIBRATED_DEFAULT_MAX
      [] OTHER -> UncalibratedPulse

Servos == 0..(NumServos - 1)

\* Command lines the host may send.
Lines ==
    { <<"H", "H", "9", "0">>,
      <<"R", "B", "+", "1", "0">>,
      <<"Z", "Z", "5", "0">>,
      <<"H", "H", "9", "0", " ", "Z", "Z", "5", " ", "R", "B", "+", "1", "0">>,
      <<"L", "I", "5", "0">>,
      <<"H", "H", " ", "R", "M", "3", "0">>,
      <<"R", "M", "+", "1", "0">>,
      <<"D", "P">>,
      <<"H", "H", "6", "5", "5", "8", "6">>,
      <<"R", "B", "-", "2", "0", "0">>,
      <<"R", "B", "+", "0", " ", "R", "B", "+", "0">> }

TickSteps == {IdleThreshold, IdleThreshold + 1}

\* The controller after setup(), at the top of the first loop().
Setup ==
    /\ rx = <<>>
    /\ commands = [i \in 0..(numChars - 1) |-> NUL]
    /\ ndx = 0
    /\ newData = FALSE
    /\ _servoMins = [p \in Servos |-> SetupMin(p)]
    /\ _servoMaxs = [p \in Servos |-> SetupMax(p)]
    /\ _servoPoss = [p \in Servos |-> UnsetAngle]
    /\ _lastUpdated = [p \in Servos |-> 0]
    /\ now = 0
    /\ pc = "recv"
    /\ effects = <<>>
    /\ sent = 0

NoMapping == mapIn = [min |-> 0, max |-> 0, p |-> 0] /\ mapOut = <<>>

Init ==
    /\ Setup
    /\ stream = <<>>
    /\ fed = 0
    /\ NoMapping

\* The host writes one command line and its end marker to the serial link.
\* (Environment steps are taken between two iterations of loop().)
HostSend(line) ==
    /\ pc = "recv"
    /\ sent < MaxLines
    /\ rx = <<>>
    /\ rx' = line \o <<endMarker>>
    /\ sent' = sent + 1
    /\ UNCHANGED <<commands, ndx, newData, _servoMins, _servoMaxs, _servoPoss,
                   _lastUpdated, now, pc, effects, aux>>

\* Time passes.
Tick(d) ==
    /\ pc = "recv"
    /\ now + d <= MaxTime
    /\ now' = now + d
    /\ UNCHANGED <<rx, commands, ndx, newData, _servoMins, _servoMaxs,
                   _servoPoss, _lastUpdated, pc, effects, sent, aux>>

\* loop(): recvWithEndMarker()
recvWithEndMarker ==
    /\ pc = "recv"
    /\ LET r == RecvLoop([rx |-> rx, commands |-> commands, ndx |-> ndx,
                          newData |-> newData])
       IN  /\ rx' = r.rx
           /\ commands' = r.commands
           /\ ndx' = r.ndx
           /\ newData' = r.newData
    /\ effects' = <<>>
    /\ pc' = "process"
    /\ UNCHANGED <<_servoMins, _servoMaxs, _servoPoss, _lastUpdated, now, sent,
                   aux>>

\* loop(): processCommands()
processCommands(junk) ==
    /\ pc = "process"
    /\ IF newData = TRUE
       THEN LET r == RunLine(commands, Hat, now, junk)
            IN  /\ commands' = r.buf
                /\ _servoMins' = r.h.mins
                /\ _servoMaxs' = r.h.maxs
                /\ _servoPoss' = r.h.poss
                /\ _lastUpdated' = r.h.upd
                /\ effects' = r.h.log
                /\ newData' = FALSE
       ELSE /\ effects' = <<>>
            /\ UNCHANGED <<commands, newData, _servoMins, _servoMaxs,
                           _servoPoss, _lastUpdated>>
    /\ pc' = "idle"
    /\ UNCHANGED <<rx, ndx, now, sent, aux>>

\* loop(): turnOffIdleServos()
turnOffIdleServos ==
    /\ pc = "idle"
    /\ LET h == hatTurnOffIdleServos(Hat, now)
       IN  /\ _servoMins' = h.mins
           /\ _servoMaxs' = h.maxs
           /\ _servoPoss' = h.poss
           /\ _lastUpdated' = h.upd
           /\ effects' = h.log
    /\ pc' = "recv"
    /\ UNCHANGED <<rx, commands, ndx, newData, now, sent, aux>>

Next ==
    \/ \E line \in Lines : HostSend(line)
    \/ \E d \in TickSteps : Tick(d)
    \/ recvWithEndMarker
    \/ \E junk \in Junks : processCommands(junk)
    \/ turnOffIdleServos

Spec == Init /\ [][Next]_vars

\* The controller's own variables.
ctl == <<rx, commands, ndx, newData, _servoMins, _servoMaxs, _servoPoss,
         _lastUpdated, now, pc, effects, sent>>

----------------------------------------------------------------------------
(* A host that feeds a byte stream to the serial link in fragments of any  *)
(* size, between iterations of loop().  The streams are shorter than the   *)
(* link's receive buffer and carry no token without a value.               *)

LongLine ==
    <<"H", "H", "1", "0", " ", "R", "B", "+", "2", "0", " ",
      "H", "H", "3", "0", " ", "R", "B", "4", "0", " ",
      "H", "H", "5", "0", " ", "R", "B", "5", "0", "0", "0", " ",
      "H", "H", "7", "5">>

Streams ==
    { LongLine \o <<endMarker>> \o <<"H", "H", "9", "0", endMarker>>,
      SubSeq(LongLine, 1, numChars - 1) \o <<endMarker>>
          \o <<"H", "V", "5", endMarker>>,
      SubSeq(LongLine, 1, numChars) \o <<endMarker>>
          \o <<"H", "V", "5", endMarker>>,
      <<"H", "H", "9", "0", endMarker, endMarker,
        "R", "B", "+", "1", "0", endMarker>> }

FeedInit ==
    /\ Setup
    /\ stream \in Streams
    /\ fed = 0
    /\ NoMapping

\* The next n bytes of the stream reach the receive buffer.
HostFeed(n) ==
    /\ pc = "recv"
    /\ fed + n <= Len(stream)
    /\ rx' = rx \o SubSeq(stream, fed + 1, fed + n)
    /\ fed' = fed + n
    /\ UNCHANGED <<commands, ndx, newData, _servoMins, _servoMaxs, _servoPoss,
                   _lastUpdated, now, pc, effects, sent, stream, mapIn, mapOut>>

FeedNext ==
    \/ \E n \in 1..Len(stream) : HostFeed(n)
    \/ recvWithEndMarker
    \/ \E junk \in Junks : processCommands(junk)
    \/ turnOffIdleServos

FeedSpec == FeedInit /\ [][FeedNext]_vars

----------------------------------------------------------------------------
(* Harness of the percentage mapping: getCalculatedDegreesFromPercentage   *)
(* is applied to the percentages 0, 1, 2, ... for one pair of int bounds   *)
(* minimum <= maximum; mapOut[p + 1] is its result for percentage p.       *)

\* Bounds the mapping is applied to: the degree tables' values and the ends
\* of the int range.
DegreeBounds ==
    {-(2 ^ (IntBits - 1)), -90, 0, RIGHT_THUMB_MIN, HEAD_TWIST_MIN,
     RIGHT_BICEP_TWIST_MIN, SafeDefaultDegrees, HEAD_TWIST_MAX,
     RIGHT_BICEP_TWIST_MAX, RIGHT_RING_MAX, 180, 2 ^ (IntBits - 1) - 1}

MapInit ==
    /\ Setup
    /\ stream = <<>>
    /\ fed = 0
    /\ \E lo \in DegreeBounds, hi \in DegreeBounds :
          lo <= hi /\ mapIn = [min |-> lo, max |-> hi, p |-> 0]
    /\ mapOut = <<>>

MapApply ==
    /\ mapIn.p <= MaxPercent
    /\ mapOut' = Append(mapOut,
           getCalculatedDegreesFromPercentage(mapIn.p, mapIn.min, mapIn.max))
    /\ mapIn' = [mapIn EXCEPT !.p = @ + 1]
    /\ UNCHANGED <<ctl, stream, fed>>

MapNext == MapApply

MapSpec == MapInit /\ [][MapNext]_vars

----------------------------------------------------------------------------
(* Vocabulary of the properties *)

\* The channel ids a command can address: the range of the code table.
Addressable ==
    {PIN_HEAD_TWIST, PIN_HEAD_VERT, PIN_HEAD_MOUTH, PIN_RIGHT_BICEP_TWIST,
     PIN_RIGHT_THUMB, PIN_RIGHT_INDEX, PIN_RIGHT_MIDDLE, PIN_RIGHT_RING,
     PIN_RIGHT_PINKY, PIN_RIGHT_WRIST, PIN_LEFT_THUMB, PIN_LEFT_INDEX,
     PIN_LEFT_MIDDLE, PIN_LEFT_RING, PIN_LEFT_PINKY, PIN_LEFT_WRIST}

IsPwm(e) == e.tag = "PWM"
IsAck(e) == e.tag = "M"
IsE100(e) == e.tag = "E100"
IsEcho(e) == e.tag = "C"
EchoEvents(log) == SelectSeq(log, IsEcho)
PwmEvents(log) == SelectSeq(log, IsPwm)
AckEvents(log) == SelectSeq(log, IsAck)
E100Events(log) == SelectSeq(log, IsE100)

\* The write that drives channel ch to pulse width off.
ChannelWrite(ch, off) ==
    IF ch < BoardPins THEN PwmWrite(0, ch, off) ELSE PwmWrite(1, ch - BoardPins, off)

\* The channel a sink write addresses.
ChannelOf(e) == e.dev * BoardPins + e.num

\* An acknowledged token whose code is neither DP nor in the code table.
Unsupported(e) ==
    IsAck(e) /\ e.servo # <<"D", "P">> /\ getControlPin(e.servo) = -1

\* processCommands is about to handle a complete line.
LineReady == pc = "process" /\ newData = TRUE

\* processCommands has just handled the line text.
Handled(text) ==
    pc = "idle" /\ effects # <<>> /\ effects[1] = EchoLine(text)

\* The tokens of the C string in buf, left to right.
RECURSIVE TokensFrom(_)
TokensFrom(tk) ==
    IF tk.tok = -1 THEN <<>>
    ELSE <<CStr(tk.buf, tk.tok)>> \o TokensFrom(strtok(tk.buf, tk.save, {" "}))

Tokens(buf) == TokensFrom(strtok(buf, 0, {" ", endMarker}))

CodeOf(token) == SubSeq(token, 1, IF Len(token) < 2 THEN Len(token) ELSE 2)

\* A buffer holding the given tokens separated by single spaces.
RECURSIVE Join(_)
Join(toks) ==
    IF toks = <<>> THEN <<>>
    ELSE IF Len(toks) = 1 THEN toks[1]
    ELSE toks[1] \o <<" ">> \o Join(Tail(toks))

BufferOf(text) == [i \in 0..(numChars - 1) |-> IF i < Len(text) THEN text[i + 1] ELSE NUL]

SupportedToken(token) ==
    CodeOf(token) = <<"D", "P">> \/ getControlPin(CodeOf(token)) # -1

Registry == <<_servoMins, _servoMaxs, _servoPoss, _lastUpdated>>
RegistryOf(h) == <<h.mins, h.maxs, h.poss, h.upd>>

----------------------------------------------------------------------------
(* C1: a token whose channel code is not in the code-to-channel table      *)
(* changes no channel's lastAngle or lastUpdateTime, issues no PWM write,  *)
(* and yields exactly one E100 response that carries the code.  Stated for *)
(* the dispatcher in every reachable registry, and for every line handled: *)
(* each acknowledged unsupported token is followed at once by its E100 and *)
(* by no PWM write, there is one E100 per such token, and a line of such   *)
(* tokens only leaves the registry as it was.                              *)

UnsupportedCodes == {<<"Z", "Z">>, <<"Z">>, <<"L", "B">>, <<"h", "h">>, <<"5", "0">>}
SampleValues == {-200, -1, 0, 50, 100, 150}

C1_DispatchOfUnsupported ==
    \A servo \in UnsupportedCodes, v \in SampleValues, rel \in BOOLEAN, junk \in Junks :
        sendCommand(Hat, servo, v, rel, now, junk) = [Hat EXCEPT !.log = <<E100(servo)>>]

C1_LineOfUnsupported ==
    LET log == effects'
        n == Len(log)
    IN  /\ \A i \in 1..n :
              Unsupported(log[i]) =>
                  /\ i < n
                  /\ log[i + 1] = E100(log[i].servo)
                  /\ (i + 2 <= n => ~IsPwm(log[i + 2]))
        /\ Len(E100Events(log)) = Cardinality({i \in 1..n : Unsupported(log[i])})
        /\ (\A i \in 1..n : IsAck(log[i]) => Unsupported(log[i])) =>
               /\ Registry' = Registry
               /\ PwmEvents(log) = <<>>

\* C1: handling a token with an unsupported code leaves registry and sink
\* alone and prints exactly one E100 carrying the code.
C1_UnsupportedCodeNoEffect ==
    [][LineReady => C1_DispatchOfUnsupported /\ C1_LineOfUnsupported]_vars

\* A line with an unsupported token has been handled and answered with E100.
C1_Witness ==
    /\ Handled(<<"Z", "Z", "5", "0">>)
    /\ E100Events(effects) = <<E100(<<"Z", "Z">>)>>

----------------------------------------------------------------------------
(* C2: an unsupported token does not stop the line: every token of the     *)
(* line is acknowledged, in order, and the registry and the sequence of    *)
(* PWM writes are those of the same line without its unsupported tokens.   *)

C2_Continues ==
    LET toks == Tokens(commands)
        kept == SelectSeq(toks, SupportedToken)
        acks == AckEvents(effects')
    IN  /\ Len(acks) = Len(toks)
        /\ \A i \in 1..Len(toks) : acks[i].servo = CodeOf(toks[i])
        /\ \E junk \in Junks :
              LET r == RunLine(BufferOf(Join(kept)), Hat, now, junk)
              IN  /\ Registry' = RegistryOf(r.h)
                  /\ PwmEvents(effects') = PwmEvents(r.h.log)

\* C2: the tokens after an unsupported one are dispatched as if it were absent.
C2_UnsupportedDoesNotStopLine == [][LineReady => C2_Continues]_vars

\* A token after an unsupported one has driven its channel.
C2_Witness ==
    /\ pc = "idle"
    /\ \E i \in 1..Len(effects) : \E j \in 1..Len(effects) :
          i < j /\ IsE100(effects[i]) /\ IsPwm(effects[j])

----------------------------------------------------------------------------
(* C3: on every watchdog sweep every addressable channel, ids 16 and above *)
(* included, is written with the disabled value 4096 exactly when its      *)
(* lastUpdateTime is more than 5000 time units in the past.                *)

C3_Sweep ==
    \A ch \in Addressable :
        now > _lastUpdated[ch] + IdleThreshold
            <=> \E i \in 1..Len(effects') : effects'[i] = ChannelWrite(ch, PwmOff)

\* C3: a sweep writes 4096 to exactly the addressable channels that are idle.
C3_SweepDisablesEveryIdleChannel == [][pc = "idle" => C3_Sweep]_vars

----------------------------------------------------------------------------
(* Lines of one token addressed to a channel of the code table *)

OneChannelToken ==
    /\ LineReady
    /\ Len(Tokens(commands)) = 1
    /\ getControlPin(CodeOf(Tokens(commands)[1])) # -1

\* The acknowledgement of the only token of the line just handled.
TheAck == AckEvents(effects')[1]

Clamp(p) == IF p > 100 THEN 100 ELSE IF p < 0 THEN 0 ELSE p

\* The angle a relative command of delta d is to give channel pin: the
\* stored angle (the 50% angle when unset) as a percentage, plus d, clamped.
RelativeTarget(pin, d, current) ==
    LET lo == getServoMin(pin)
        hi == getServoMax(pin)
        base == IF current = UnsetAngle THEN map(50, 0, 100, lo, hi) ELSE current
    IN  map(Clamp(map(base, lo, hi, 0, 100) + d), 0, 100, lo, hi)

\* The angle an absolute command of percentage p is to give channel pin.
AbsoluteTarget(pin, p) == map(Clamp(p), 0, 100, getServoMin(pin), getServoMax(pin))

----------------------------------------------------------------------------
(* C4: the substitution v := 100 - v is applied exactly when the channel   *)
(* is the inverted channel and the command is absolute; a relative command *)
(* to the inverted channel is applied with its delta unchanged, and no     *)
(* command to another channel is inverted.                                 *)

C4_Target ==
    LET pin == getControlPin(TheAck.servo)
        v == ToInt(TheAck.value)
    IN  _servoPoss'[pin] =
            IF TheAck.relative THEN RelativeTarget(pin, v, _servoPoss[pin])
            ELSE IF pin = PIN_INVERT THEN AbsoluteTarget(pin, 100 - v)
            ELSE AbsoluteTarget(pin, v)

\* C4: a one-token line leaves its channel at the angle the claimed rule gives.
C4_InversionOnlyForAbsolute == [][OneChannelToken => C4_Target]_vars

----------------------------------------------------------------------------
(* C5: after a DP command, from any prior registry state, every channel of *)
(* the default-positions list has lastAngle equal to the 50% angle of its  *)
(* range, and the sink has received the pulse of that angle for it.        *)

C5_Defaults ==
    \A k \in 1..Len(pins) :
        LET pin == pins[k]
            angle == AbsoluteTarget(pin, 50)
            pulse == map(angle, 0, 180, _servoMins[pin], _servoMaxs[pin])
        IN  /\ _servoPoss'[pin] = angle
            /\ \E i \in 1..Len(effects') : effects'[i] = ChannelWrite(pin, pulse)

\* C5: the line "DP" leaves every listed channel at its 50% angle, written
\* to the sink.
C5_DefaultPositions ==
    [][LineReady /\ Tokens(commands) = <<(<<"D", "P">>)>> => C5_Defaults]_vars

----------------------------------------------------------------------------
(* C6: the line "HH90", with HH calibrated to pulses [180,580], stores an  *)
(* angle for HH and makes exactly one sink write, to HH's output.          *)

LineHH90 == <<"H", "H", "9", "0">>

HHCalibrated ==
    /\ _servoMins[PIN_HEAD_TWIST] = SERVO_HEAD_TWIST_MIN
    /\ _servoMaxs[PIN_HEAD_TWIST] = SERVO_HEAD_TWIST_MAX

\* C6 as claimed: angle 90 and pulse 380.
C6_HH90_Angle90Pulse380 ==
    Handled(LineHH90) /\ HHCalibrated =>
        /\ _servoPoss[PIN_HEAD_TWIST] = 90
        /\ PwmEvents(effects) = <<ChannelWrite(PIN_HEAD_TWIST, 380)>>

\* C6 as amended: 90% of HH's degree range [40,100] is angle 94, and
\* the one write carries pulse 388.
C6_HH90_Angle94Pulse388 ==
    Handled(LineHH90) /\ HHCalibrated =>
        /\ _servoPoss[PIN_HEAD_TWIST] = 94
        /\ PwmEvents(effects) = <<ChannelWrite(PIN_HEAD_TWIST, 388)>>

C6_Witness ==
    /\ Handled(LineHH90)
    /\ HHCalibrated
    /\ Len(PwmEvents(effects)) = 1

----------------------------------------------------------------------------
(* C7: the line "RB+10" with RB unset and calibrated to pulses [180,580]   *)
(* first establishes the 50% baseline and then applies the delta: two sink *)
(* writes to RB's output, in this order, and lastAngle ends at the second. *)

LineRBplus10 == <<"R", "B", "+", "1", "0">>

RBUnsetLine ==
    /\ LineReady
    /\ CStr(commands, 0) = LineRBplus10
    /\ _servoPoss[PIN_RIGHT_BICEP_TWIST] = UnsetAngle
    /\ _servoMins[PIN_RIGHT_BICEP_TWIST] = SERVO_RIGHT_BICEP_TWIST_MIN
    /\ _servoMaxs[PIN_RIGHT_BICEP_TWIST] = SERVO_RIGHT_BICEP_TWIST_MAX

\* C7 as claimed: pulse 380 (angle 90), then pulse 420.
C7_Baseline380Then420 ==
    [][RBUnsetLine =>
          PwmEvents(effects') = <<ChannelWrite(PIN_RIGHT_BICEP_TWIST, 380),
                                  ChannelWrite(PIN_RIGHT_BICEP_TWIST, 420)>>]_vars

\* C7 as amended: the baseline is angle 82 (50% of RB's degree range
\* [45,120]), pulse 362; the delta gives percentage 49 + 10 = 59, angle 89,
\* pulse 377; lastAngle ends at 89.
C7_Baseline362Then377 ==
    [][RBUnsetLine =>
          /\ PwmEvents(effects') = <<ChannelWrite(PIN_RIGHT_BICEP_TWIST, 362),
                                     ChannelWrite(PIN_RIGHT_BICEP_TWIST, 377)>>
          /\ _servoPoss'[PIN_RIGHT_BICEP_TWIST] = 89]_vars

C7_Witness ==
    /\ Handled(LineRBplus10)
    /\ Len(PwmEvents(effects)) = 2
    /\ _servoPoss[PIN_RIGHT_BICEP_TWIST] = 89

----------------------------------------------------------------------------
(* C8: in every reachable state each addressable channel's lastAngle is    *)
(* the unset sentinel -1 or an angle within [0,180] and within the         *)
(* channel's configured degree range.                                      *)

\* C8: every addressable lastAngle is -1 or within [0,180] and the channel's
\* degree range.
C8_AngleInRange ==
    \A ch \in Addressable :
        \/ _servoPoss[ch] = UnsetAngle
        \/ /\ _servoPoss[ch] >= 0
           /\ _servoPoss[ch] <= 180
           /\ _servoPoss[ch] >= getServoMin(ch)
           /\ _servoPoss[ch] <= getServoMax(ch)

----------------------------------------------------------------------------
(* C9: every pulse width a command writes to the sink lies within the      *)
(* calibrated [minPulse, maxPulse] of the channel it addresses; the only   *)
(* other value ever written is the disabled value 4096, and only the idle  *)
(* watchdog writes it.                                                     *)

\* C9: processCommands writes only pulses within the addressed channel's
\* calibration; every other write is the watchdog's 4096.
C9_PulseInRange ==
    \A i \in 1..Len(effects) :
        IsPwm(effects[i]) =>
            IF pc = "idle"
            THEN LET ch == ChannelOf(effects[i])
                 IN  /\ ch \in Servos
                     /\ effects[i].off >= SetupMin(ch)
                     /\ effects[i].off <= SetupMax(ch)
            ELSE effects[i].off = PwmOff

----------------------------------------------------------------------------
(* C10: out-of-range values are always clamped.  An absolute command whose *)
(* value is above 100 leaves the channel at the angle value 100 gives; a   *)
(* relative command leaves it at the angle of the clamped sum of the       *)
(* current percentage and the delta.  The value is the number the token    *)
(* spells.  (The relative part is stated for the channels that are not     *)
(* inverted.)                                                              *)

C10_Target ==
    LET pin == getControlPin(TheAck.servo)
        v == TheAck.value
    IN  /\ (~TheAck.relative /\ v > 100) =>
               _servoPoss'[pin] =
                   AbsoluteTarget(pin, IF pin = PIN_INVERT THEN 0 ELSE 100)
        /\ (TheAck.relative /\ pin # PIN_INVERT) =>
               _servoPoss'[pin] = RelativeTarget(pin, v, _servoPoss[pin])

\* C10: a one-token line leaves its channel at the angle of the clamped value.
C10_AlwaysClamped == [][OneChannelToken => C10_Target]_vars

----------------------------------------------------------------------------
(* C11: for all percentages p in [0,100] and all bounds min <= max the     *)
(* percentage mapping is monotonically non-decreasing in p, maps 0 to      *)
(* exactly min and 100 to exactly max.  (MapSpec)                          *)

\* C11: the results for 0..100 never decrease, start at min and end at max.
C11_MonotoneOntoBounds ==
    /\ \A i \in 1..Len(mapOut) : \A j \in i..Len(mapOut) :
           j <= 101 => mapOut[i] <= mapOut[j]
    /\ Len(mapOut) >= 1 => mapOut[1] = mapIn.min
    /\ Len(mapOut) >= 101 => mapOut[101] = mapIn.max

\* All percentages have been applied to HH's degree range; 90% gave 94.
C11_Witness ==
    /\ Len(mapOut) >= 101
    /\ mapIn.min = HEAD_TWIST_MIN
    /\ mapIn.max = HEAD_TWIST_MAX
    /\ mapOut[91] = 94

----------------------------------------------------------------------------
(* C12: a relative command with delta 0 is idempotent: applied twice in    *)
(* succession it leaves the stored angle, and sends the pulse, that one    *)
(* application leaves and sends.  Stated for a line that holds the same    *)
(* zero-delta token twice, against the same line holding it once.          *)

ZeroDeltas == {<<"+", "0">>, <<"-", "0">>}

\* The line about to be handled is a zero-delta token of a channel, twice.
ZeroDeltaTwice ==
    /\ LineReady
    /\ Len(Tokens(commands)) = 2
    /\ Tokens(commands)[1] = Tokens(commands)[2]
    /\ getControlPin(CodeOf(Tokens(commands)[1])) # -1
    /\ SubSeq(Tokens(commands)[1], 3, Len(Tokens(commands)[1])) \in ZeroDeltas

C12_SameAsOnce ==
    LET token == Tokens(commands)[1]
        pin == getControlPin(CodeOf(token))
        once == RunLine(BufferOf(token), Hat, now, CHOOSE junk \in Junks : TRUE).h
        writes == PwmEvents(effects')
        writesOnce == PwmEvents(once.log)
    IN  /\ _servoPoss'[pin] = once.poss[pin]
        /\ writes[Len(writes)] = writesOnce[Len(writesOnce)]

\* C12: two zero-delta commands in succession leave the angle and the pulse
\* of one.
C12_ZeroDeltaIdempotent == [][ZeroDeltaTwice => C12_SameAsOnce]_vars

----------------------------------------------------------------------------
(* C14: a token without sign and digit (a bare "DP" or "HH") is handled    *)
(* with the fallback value 0: it is acknowledged as absolute with value 0, *)
(* dispatched with that value, and the remaining tokens of the line are    *)
(* processed.                                                              *)

BareToken(token) == \A i \in 1..Len(token) : token[i] \notin ValueChars

\* The token with the fallback value written out.
WithFallback(token) == IF BareToken(token) THEN token \o <<"0">> ELSE token

C14_Fallback ==
    LET toks == Tokens(commands)
        acks == AckEvents(effects')
        spelled == [i \in 1..Len(toks) |-> WithFallback(toks[i])]
    IN  /\ Len(acks) = Len(toks)
        /\ \A i \in 1..Len(toks) :
               BareToken(toks[i]) => acks[i] = Ack(CodeOf(toks[i]), FALSE, 0)
        /\ \E junk \in Junks :
               LET r == RunLine(BufferOf(Join(spelled)), Hat, now, junk)
               IN  /\ Registry' = RegistryOf(r.h)
                   /\ PwmEvents(effects') = PwmEvents(r.h.log)

\* C14: a token without a value is acknowledged and dispatched with value 0.
C14_BareTokenFallsBackToZero == [][LineReady => C14_Fallback]_vars

----------------------------------------------------------------------------
(* C16: a watchdog sweep leaves every channel's lastUpdateTime, lastAngle  *)
(* and calibration unchanged, so a channel that stays idle is written with *)
(* the disabled value again on every subsequent sweep until a command      *)
(* updates it: an idle channel stays idle as long as its lastUpdateTime is *)
(* not changed, and every sweep writes 4096 to every idle channel among    *)
(* those the sweep visits (for the ids it does not visit see C3).          *)

Idle(ch) == now > _lastUpdated[ch] + IdleThreshold

\* The channels the loop of the sweep visits.
SweptChannels == 0..(SweepPins - 1)

Disabled(log, ch) == \E i \in 1..Len(log) : log[i] = ChannelWrite(ch, PwmOff)

C16_Frame == pc = "idle" => Registry' = Registry

C16_StaysIdle ==
    \A ch \in Servos :
        (Idle(ch) /\ _lastUpdated'[ch] = _lastUpdated[ch]) =>
            now' > _lastUpdated'[ch] + IdleThreshold

C16_Redisabled ==
    pc = "idle" =>
        \A ch \in SweptChannels : Idle(ch) => Disabled(effects', ch)

----------------------------------------------------------------------------
(* C17: a DP command touches only the channels of the default-positions    *)
(* list: exactly one sink write per listed channel and none for any other  *)
(* output, lastAngle and lastUpdateTime of every channel outside the list  *)
(* and the calibration of every channel unchanged, and its loop reads only *)
(* the entries of the list.                                                *)

ListedPins == {pins[k] : k \in 1..Len(pins)}

\* The indices at which the loop of setDefaultPositions reads pins[].
DefaultLoopIndices == 0..(SizeofPins - 2)

C17_OnlyListed ==
    LET writes == PwmEvents(effects')
    IN  /\ Len(writes) = Len(pins)
        /\ \A k \in 1..Len(pins) :
               Cardinality({i \in 1..Len(writes) :
                               ChannelOf(writes[i]) = pins[k]}) = 1
        /\ \A ch \in Servos \ ListedPins :
               /\ _servoPoss'[ch] = _servoPoss[ch]
               /\ _lastUpdated'[ch] = _lastUpdated[ch]
        /\ _servoMins' = _servoMins
        /\ _servoMaxs' = _servoMaxs
        /\ \A i \in DefaultLoopIndices : i < pinAmount

\* C17: the line "DP" writes each listed channel once and touches nothing else.
C17_DefaultsTouchOnlyList ==
    [][LineReady /\ Tokens(commands) = <<(<<"D", "P">>)>> => C17_OnlyListed]_vars

----------------------------------------------------------------------------
(* C18: for each completed line the responses and effects come in a fixed  *)
(* order: exactly one C: echo of the raw line first, then the tokens left  *)
(* to right, each token's M: acknowledgement before that token's own sink  *)
(* writes or E100 response, and all effects of a token before those of the *)
(* next.  The registry ends as the last token addressing a channel left it.*)

\* The acknowledgement that precedes position i of the log (0 if none).
AckBefore(log, i) ==
    LET acks == {k \in 1..(i - 1) : IsAck(log[k])}
    IN  IF acks = {} THEN 0 ELSE CHOOSE k \in acks : \A m \in acks : m <= k

\* Event e is an effect of the token acknowledged by a.
EffectOf(e, a) ==
    IF a.servo = <<"D", "P">> THEN IsPwm(e)
    ELSE IF getControlPin(a.servo) = -1 THEN e = E100(a.servo)
    ELSE IsPwm(e) /\ ChannelOf(e) = getControlPin(a.servo)

\* The effects that follow the acknowledgement at position k, up to the next.
EffectsAfter(log, k) ==
    {i \in (k + 1)..Len(log) : AckBefore(log, i) = k /\ ~IsAck(log[i])}

\* The pulse last written to channel ch is the pulse of the stored angle.
LastWriteIsStored(log, ch) ==
    LET ws == {i \in 1..Len(log) : IsPwm(log[i]) /\ ChannelOf(log[i]) = ch}
        last == CHOOSE i \in ws : \A m \in ws : m <= i
    IN  ws # {} =>
            log[last].off =
                ToWord(map(_servoPoss'[ch], 0, 180, _servoMins'[ch], _servoMaxs'[ch]))

C18_Order ==
    LET log == effects'
        toks == Tokens(commands)
        acks == AckEvents(log)
    IN  /\ log[1] = EchoLine(CStr(commands, 0))
        /\ EchoEvents(log) = <<log[1]>>
        /\ Len(acks) = Len(toks)
        /\ \A i \in 1..Len(toks) : acks[i].servo = CodeOf(toks[i])
        /\ \A i \in 2..Len(log) :
               ~IsAck(log[i]) =>
                   /\ AckBefore(log, i) # 0
                   /\ EffectOf(log[i], log[AckBefore(log, i)])
        /\ \A k \in 1..Len(log) :
               IsAck(log[k]) =>
                   LET n == Cardinality(EffectsAfter(log, k))
                   IN  IF log[k].servo = <<"D", "P">> THEN n >= 1
                       ELSE IF getControlPin(log[k].servo) = -1 THEN n = 1
                       ELSE n \in {1, 2}
        /\ (\A i \in 1..Len(toks) : CodeOf(toks[i]) # <<"D", "P">>) =>
               \A ch \in Addressable : LastWriteIsStored(log, ch)

\* C18: echo first, then per token its acknowledgement followed by its own
\* effects, left to right.
C18_EchoThenTokensInOrder == [][LineReady => C18_Order]_vars

\* A line of three tokens has been handled: echo, then acknowledgement and
\* write of HH, acknowledgement and E100 of ZZ, acknowledgement and the two
\* writes of RB.
C18_Witness ==
    /\ Handled(<<"H", "H", "9", "0", " ", "Z", "Z", "5", " ",
                 "R", "B", "+", "1", "0">>)
    /\ Len(effects) = 8
    /\ IsAck(effects[2]) /\ IsPwm(effects[3])
    /\ IsAck(effects[4]) /\ IsE100(effects[5])
    /\ IsAck(effects[6]) /\ IsPwm(effects[7]) /\ IsPwm(effects[8])

----------------------------------------------------------------------------
(* Lines of the fed stream (FeedSpec) *)

\* Number of stream bytes the receiver has read.
Consumed == fed - Len(rx)

\* Positions of the end markers of the stream.
Markers == {i \in 1..Len(stream) : stream[i] = endMarker}

\* The line of the stream that ends with the marker at position m.
LineEndingAt(m) ==
    LET before == {i \in Markers : i < m}
        start == IF before = {} THEN 1
                 ELSE (CHOOSE i \in before : \A k \in before : k <= i) + 1
    IN  SubSeq(stream, start, m - 1)

\* The line the receiver has just completed (its marker was the last byte
\* read), and the one before it.
CurrentLine == LineEndingAt(Consumed)
PreviousLine ==
    LET m == Consumed - Len(CurrentLine) - 1
    IN  IF m >= 1 THEN LineEndingAt(m) ELSE <<>>

Take(line, n) == SubSeq(line, 1, IF Len(line) < n THEN Len(line) ELSE n)

Oversized(line) == Len(line) > numChars - 1

HasMarker(bytes) == \E i \in 1..Len(bytes) : bytes[i] = endMarker

----------------------------------------------------------------------------
(* C13: when more bytes than the buffer holds arrive before the end marker *)
(* (capacity 32), the line is still delivered when the marker arrives, its *)
(* content is exactly the first 31 bytes received for it, and the next     *)
(* line is accumulated from position zero and delivered unaffected.        *)
(* (FeedSpec)                                                              *)

C13_Delivered ==
    (pc = "recv" /\ pc' = "process" /\ HasMarker(rx)) => newData' = TRUE

C13_Content ==
    (LineReady /\ (Oversized(CurrentLine) \/ Oversized(PreviousLine))) =>
        /\ CStr(commands, 0) = Take(CurrentLine, numChars - 1)
        /\ ndx = 0
        /\ effects'[1] = EchoLine(Take(CurrentLine, numChars - 1))

\* C13: an oversized line is delivered as its first 31 bytes, and the line
\* after it is delivered whole.
C13_OverflowKeepsFirstBytes == [][C13_Delivered /\ C13_Content]_vars

\* The line after an oversized one has been handled: HH is at 90%.
C13_Witness ==
    /\ Handled(<<"H", "H", "9", "0">>)
    /\ Oversized(PreviousLine)
    /\ _servoPoss[PIN_HEAD_TWIST] = 94

----------------------------------------------------------------------------
(* C15: the lines delivered to the dispatcher depend only on the byte      *)
(* stream, not on its fragmentation: each line dispatched is the line of   *)
(* the stream that ends at the marker just read (cut to the buffer), a     *)
(* loop iteration reads up to and including the first marker available and *)
(* dispatches that one line, and without available bytes the partial line  *)
(* stays as it is.  (FeedSpec)                                             *)

\* recvWithEndMarker reads everything available, or up to the first marker.
C15_OneLinePerIteration ==
    (pc = "recv" /\ pc' = "process") =>
        IF HasMarker(rx)
        THEN LET m == CHOOSE i \in 1..Len(rx) :
                          rx[i] = endMarker /\ ~HasMarker(SubSeq(rx, 1, i - 1))
             IN  rx' = SubSeq(rx, m + 1, Len(rx)) /\ newData' = TRUE
        ELSE rx' = <<>> /\ newData' = FALSE

\* The dispatcher handles exactly the line that was completed, once.
C15_LineOfStream ==
    pc = "process" =>
        IF newData = TRUE
        THEN /\ CStr(commands, 0) = Take(CurrentLine, numChars - 1)
             /\ EchoEvents(effects') = <<EchoLine(Take(CurrentLine, numChars - 1))>>
        ELSE effects' = <<>>

\* The bytes accumulated so far stay in place unless bytes are read.
C15_PartialKept ==
    (pc # "recv" \/ rx = <<>>) =>
        /\ ndx' = ndx
        /\ \A i \in 0..(ndx - 1) : commands'[i] = commands[i]

\* C15: one line per iteration, each the stream's own line, whatever the
\* fragments.
C15_FragmentationIndependent ==
    [][C15_OneLinePerIteration /\ C15_LineOfStream /\ C15_PartialKept]_vars

\* A partial line is held with nothing to read, after an earlier line of
\* the stream was dispatched.
C15_Witness ==
    /\ pc = "idle"
    /\ rx = <<>>
    /\ ndx > 0
    /\ ndx < Consumed
    /\ _servoPoss[PIN_HEAD_TWIST] # UnsetAngle

----------------------------------------------------------------------------
(* C19: in every reachable state the write position is within [0, 31], the *)
(* buffer is the 32 slots it was declared with, and the line-ready flag is *)
(* false at the start of every loop iteration.  (FeedSpec)                 *)

\* C19: the write position stays inside the buffer and no line is pending
\* when loop() starts.
C19_BoundedBufferFlagClear ==
    /\ ndx \in 0..(numChars - 1)
    /\ DOMAIN commands = 0..(numChars - 1)
    /\ pc = "recv" => newData = FALSE

\* The write position is pinned at the last slot with more bytes of the line
\* still to come.
C19_Witness ==
    /\ pc = "recv"
    /\ ndx = numChars - 1
    /\ Consumed > numChars
    /\ rx # <<>>
    /\ rx[1] # endMarker

====
